---- MODULE Spec2Model ----
(***************************************************************************)
(* GreenSteps habit tracker, backend/server.py: the habit store, the       *)
(* habit routes that read and change it, the progress-statistics           *)
(* aggregation of get_progress_stats, signup and get_ai_insights.          *)
(*                                                                         *)
(* Time is counted in ticks; a calendar day is TicksPerDay ticks long, so  *)
(* datetime.date() is integer division by TicksPerDay and                  *)
(* timedelta(days=n) is n * TicksPerDay ticks.                             *)
(***************************************************************************)
EXTENDS Integers, Sequences, FiniteSets, TLC

\* ------------------------------------------------------------------ bounds
TicksPerDay == 2        \* resolution of a timestamp inside one day
MaxTicks == 1           \* how far the clock advances
MaxOps == 2             \* create_habit and delete_habit requests in one behaviour
GapOffset == 10         \* an explicit date this many days before the request
MaxRun == 31            \* longest run of consecutive logged days in a stored history
MaxSignups == 3         \* signup requests in one behaviour

\* ------------------------------------------------------- program constants
FetchCap == 1000        \* to_list(1000)
WeekDays == 7           \* week_ago = now - timedelta(days=7)
MonthDays == 30         \* month_ago = now - timedelta(days=30)
StreakDays == 30        \* for i in range(30), the streak loop
WeeklyLen == 7          \* for i in range(7), weekly_progress
MonthlyLen == 30        \* for i in range(30), monthly_progress
TargetDays == 30        \* target_days = 30
InsightCap == 100       \* to_list(100)

Users == {"u1", "u2"}

StartDay == MaxRun + MonthDays + WeekDays
\* the server starts on the last tick of day StartDay
StartTick == StartDay * TicksPerDay + TicksPerDay - 1

\* timedelta(days=n)
Days(n) == n * TicksPerDay
\* datetime.date()
DateOf(t) == t \div TicksPerDay

VARIABLES
    clock,          \* datetime.utcnow()
    habits,         \* db.habits, in natural (insertion) order
    next_id,        \* the next uuid4
    ops,            \* number of create_habit and delete_habit requests so far
    pc,             \* where the get_progress_stats request stands
    req_user,       \* current_user.id of the request
    now,            \* its local now
    all_habits,     \* its local all_habits
    fetched_from,   \* history: db.habits at the moment of the fetch
    fetches,        \* history: number of find() calls the request has made
    interleaved,    \* history: the requesting user's store requests that ran
                    \* while the request was waiting for its fetch
    store_failed,   \* history: a find() of the request raised
    outcome,        \* "none", "ok" (a ProgressStats is returned) or "error"
    response,       \* the ProgressStats returned, NoStats before
    reply,          \* the response of the habit route that answered last
    upd,            \* the update_habit request between its two awaits
    deleted,        \* history: the delete_habit requests that succeeded
    lost,           \* history: ids whose update_one matched no document
    users,          \* db.users, in natural (insertion) order
    signups,        \* the signup requests: where each stands, and its response
    gemini_api_key, \* GEMINI_API_KEY is set
    ai              \* the get_ai_insights request: its locals and its response

vars == <<clock, habits, next_id, ops, pc, req_user, now, all_habits, fetched_from,
          fetches, interleaved, store_failed, outcome, response, reply, upd,
          deleted, lost, users, signups, gemini_api_key, ai>>

NoStats == [total_habits |-> -1]

\* ------------------------------------------------------------- sequences
\* list.reverse()
Reverse(s) == [k \in 1..Len(s) |-> s[Len(s) + 1 - k]]

\* the first n elements: cursor.to_list(n)
Take(s, n) == IF Len(s) <= n THEN s ELSE SubSeq(s, 1, n)

SetMax(S) == CHOOSE x \in S : \A y \in S : y <= x

\* sorted(hs, key=lambda x: x["date"], reverse=True): stable, latest first
RECURSIVE SortedByDateDesc(_)
SortedByDateDesc(hs) ==
    IF hs = <<>> THEN <<>>
    ELSE LET top == SetMax({hs[k].date : k \in 1..Len(hs)})
         IN SelectSeq(hs, LAMBDA h : h.date = top)
              \o SortedByDateDesc(SelectSeq(hs, LAMBDA h : h.date # top))

\* ------------------------------------------------------------- the store
\* db.habits.find({"user_id": uid}): the user's documents in natural order
FindByUser(store, uid) == SelectSeq(store, LAMBDA h : h.user_id = uid)

\* faulty variant: the user_id filter is forgotten, find({}).to_list(1000)
FetchAnyUser(store, uid) == Take(store, FetchCap)

\* db.habits.find({"user_id": uid}).to_list(1000): the find has no sort, so
\* the documents come in natural order and the first 1000 of them are kept
FetchUserHabits(store, uid) == Take(FindByUser(store, uid), FetchCap)

\* the habit_name a client sends with POST /habits, and with PUT /habits/{id}
PostedName == "Recycled items"
PutName == "Walked or biked"

\* habit_doc; the fields no route of the model reads or writes are left out
HabitDoc(id, uid, habit_name, date) ==
    [id |-> id, user_id |-> uid, habit_name |-> habit_name, date |-> date]

\* ---------------------------------------------------------------- floats
(* A Python float is an IEEE-754 double: a 53-bit significand.  A positive *)
(* double is modelled as [e, m], where m = <<1, d1, .., d4>> is the        *)
(* significand: its leading bit and then Limbs digits of LimbBits bits,    *)
(* most significant first, so that the value is                            *)
(*   (1 + d1/Base + d2/Base^2 + d3/Base^3 + d4/Base^4) * 2^e.              *)
(* Zero is the all-zero significand.  True division and multiplication     *)
(* round to nearest, ties to even, as Python's do.                         *)
LimbBits == 13
Limbs == 4
Base == 2 ^ LimbBits

FZero == [e |-> 0, m |-> [k \in 1..(Limbs + 1) |-> 0]]

Front(ds) == SubSeq(ds, 1, Len(ds) - 1)

\* digits plus one unit in the last place, and the carry out of the first
RECURSIVE IncDigits(_)
IncDigits(ds) ==
    IF ds = <<>> THEN [digits |-> <<>>, carry |-> 1]
    ELSE IF ds[Len(ds)] + 1 < Base
         THEN [digits |-> Front(ds) \o <<ds[Len(ds)] + 1>>, carry |-> 0]
         ELSE LET up == IncDigits(Front(ds))
              IN [digits |-> up.digits \o <<0>>, carry |-> up.carry]

\* the result of an operation: the kept significand, rounded up or not
Rounded(e, digits, up) ==
    IF ~up THEN [e |-> e, m |-> <<1>> \o digits]
    ELSE LET inc == IncDigits(digits)
         IN IF inc.carry = 1
            THEN [e |-> e + 1, m |-> <<1>> \o [k \in 1..Limbs |-> 0]]
            ELSE [e |-> e, m |-> <<1>> \o inc.digits]

\* long division: k more digits of r / d, with r < d
RECURSIVE DivDigits(_, _, _)
DivDigits(r, d, k) ==
    IF k = 0 THEN [digits |-> <<>>, rem |-> r]
    ELSE LET rest == DivDigits((r * Base) % d, d, k - 1)
         IN [digits |-> <<(r * Base) \div d>> \o rest.digits, rem |-> rest.rem]

\* n / d with the two scaled by powers of two until d <= n < 2 * d
RECURSIVE DivScaled(_, _, _)
DivScaled(n, d, e) ==
    IF n >= 2 * d THEN DivScaled(n, 2 * d, e + 1)
    ELSE IF n < d THEN DivScaled(2 * n, d, e - 1)
    ELSE LET q == DivDigits(n - d, d, Limbs)
         IN Rounded(e, q.digits,
                    2 * q.rem > d \/ (2 * q.rem = d /\ q.digits[Limbs] % 2 = 1))

\* int / int (true division), a >= 0 and b > 0
FDivInt(a, b) == IF a = 0 THEN FZero ELSE DivScaled(a, b, 0)

\* float(n) for a natural n
FFromInt(n) == FDivInt(n, 1)

\* digits * c, least significant digit first, and the carry out of the first
RECURSIVE MulDigits(_, _)
MulDigits(ds, c) ==
    IF ds = <<>> THEN [digits |-> <<>>, carry |-> 0]
    ELSE LET rest == MulDigits(Tail(ds), c)
             t == Head(ds) * c + rest.carry
         IN [digits |-> <<t % Base>> \o rest.digits, carry |-> t \div Base]

\* the number of bits of n > 0
RECURSIVE BitLen(_)
BitLen(n) == IF n <= 1 THEN 1 ELSE 1 + BitLen(n \div 2)

\* the digits shifted right by s bits, high flowing in from above, and the
\* bits that fall off the end
RECURSIVE ShiftDigits(_, _, _)
ShiftDigits(high, ds, s) ==
    IF ds = <<>> THEN [digits |-> <<>>, out |-> high]
    ELSE LET rest == ShiftDigits(Head(ds) % (2 ^ s), Tail(ds), s)
         IN [digits |-> <<high * (2 ^ (LimbBits - s)) + Head(ds) \div (2 ^ s)>>
                          \o rest.digits,
             out |-> rest.out]

\* float * int for a small positive int c (float(c) is exact)
FMulInt(x, c) ==
    IF x = FZero THEN FZero
    ELSE LET p == MulDigits(Tail(x.m), c)
             top == c + p.carry
             s == BitLen(top) - 1
             sh == ShiftDigits(top % (2 ^ s), p.digits, s)
             half == 2 ^ (s - 1)
         IN IF s = 0 THEN Rounded(x.e, p.digits, FALSE)
            ELSE Rounded(x.e + s, sh.digits,
                         sh.out > half
                           \/ (sh.out = half /\ sh.digits[Limbs] % 2 = 1))

\* a < b on significands
RECURSIVE DigitsLess(_, _)
DigitsLess(a, b) ==
    IF a = <<>> THEN FALSE
    ELSE IF Head(a) # Head(b) THEN Head(a) < Head(b)
    ELSE DigitsLess(Tail(a), Tail(b))

\* a < b on non-negative doubles
FLess(a, b) ==
    IF a = FZero THEN b # FZero
    ELSE IF b = FZero THEN FALSE
    ELSE IF a.e # b.e THEN a.e < b.e
    ELSE DigitsLess(a.m, b.m)

\* min(a, b): b only when it is smaller
FMin(a, b) == IF FLess(b, a) THEN b ELSE a

\* the next double above a positive double
FNextUp(x) == Rounded(x.e, Tail(x.m), TRUE)

\* ------------------------------------------------------ get_progress_stats
\* faulty variant: timedelta(weeks=7) for timedelta(days=7)
WeekAgoInWeeks(n) == n - Days(7 * WeekDays)

\* week_ago = now - timedelta(days=7)
WeekAgo(n) == n - Days(WeekDays)
\* month_ago = now - timedelta(days=30)
MonthAgo(n) == n - Days(MonthDays)

\* len(all_habits)
TotalHabits(hs) == Len(hs)

\* len([h for h in all_habits if h["date"] >= week_ago])
ThisWeek(hs, n) == Len(SelectSeq(hs, LAMBDA h : h.date >= WeekAgo(n)))

\* len([h for h in all_habits if h["date"] >= month_ago])
ThisMonth(hs, n) == Len(SelectSeq(hs, LAMBDA h : h.date >= MonthAgo(n)))

\* [h for h in hs if h["date"].date() == day]
DayHabits(hs, day) == SelectSeq(hs, LAMBDA h : DateOf(h.date) = day)

\* faulty variant: a day without habits is skipped, the loop does not break
RECURSIVE StreakLoopNoBreak(_, _, _, _)
StreakLoopNoBreak(sorted_habits, current_date, i, streak) ==
    IF i >= StreakDays THEN streak
    ELSE IF DayHabits(sorted_habits, current_date - i) # <<>>
         THEN StreakLoopNoBreak(sorted_habits, current_date, i + 1, streak + 1)
         ELSE StreakLoopNoBreak(sorted_habits, current_date, i + 1, streak)

\* faulty variant: the streak pass takes an entry's day one tick ahead of UTC
RECURSIVE StreakLoopShiftedDay(_, _, _, _)
StreakLoopShiftedDay(sorted_habits, current_date, i, streak) ==
    IF i >= StreakDays THEN streak
    ELSE IF SelectSeq(sorted_habits,
                      LAMBDA h : DateOf(h.date + 1) = current_date - i) # <<>>
         THEN StreakLoopShiftedDay(sorted_habits, current_date, i + 1, streak + 1)
         ELSE streak

\* for i in range(30): ... current_streak += 1 ... else: break
RECURSIVE StreakLoop(_, _, _, _)
StreakLoop(sorted_habits, current_date, i, streak) ==
    IF i >= StreakDays THEN streak
    ELSE IF DayHabits(sorted_habits, current_date - i) # <<>>
         THEN StreakLoop(sorted_habits, current_date, i + 1, streak + 1)
         ELSE streak

\* current_streak = 0; if all_habits: ...
CurrentStreak(hs, n) ==
    IF hs = <<>> THEN 0
    ELSE StreakLoop(SortedByDateDesc(hs), DateOf(n), 0, 0)

\* faulty variant: only the days that have habits are appended
ProgressLoopSkipEmpty(hs, n, len) ==
    SelectSeq([k \in 1..len |-> Len(DayHabits(hs, DateOf(n) - (k - 1)))],
              LAMBDA c : c > 0)

\* faulty variant: the loop starts at yesterday, range(1, len + 1)
ProgressLoopFromYesterday(hs, n, len) ==
    [k \in 1..len |-> Len(DayHabits(hs, DateOf(n) - k))]

\* for i in range(len): day = now.date() - timedelta(days=i); append(count)
ProgressLoop(hs, n, len) ==
    [k \in 1..len |-> Len(DayHabits(hs, DateOf(n) - (k - 1)))]

\* weekly_progress, reversed at the end
WeeklyProgress(hs, n) == Reverse(ProgressLoop(hs, n, WeeklyLen))

\* monthly_progress, reversed at the end
MonthlyProgress(hs, n) == Reverse(ProgressLoop(hs, n, MonthlyLen))

\* faulty variant: the cap is forgotten
CompletionPercentageUncapped(this_month) ==
    IF TargetDays > 0
    THEN FMulInt(FDivInt(this_month, TargetDays), 100)
    ELSE FZero

\* min(100.0, (this_month / target_days) * 100) if target_days > 0 else 0.0
CompletionPercentage(this_month) ==
    IF TargetDays > 0
    THEN FMin(FFromInt(100), FMulInt(FDivInt(this_month, TargetDays), 100))
    ELSE FZero

\* ProgressStats(...)
ProgressStats(hs, n) ==
    [total_habits |-> TotalHabits(hs),
     this_week |-> ThisWeek(hs, n),
     this_month |-> ThisMonth(hs, n),
     current_streak |-> CurrentStreak(hs, n),
     completion_percentage |-> CompletionPercentage(ThisMonth(hs, n)),
     weekly_progress |-> WeeklyProgress(hs, n),
     monthly_progress |-> MonthlyProgress(hs, n)]

\* ---------------------------------------------------------------- states
(* The database outlives the server: the server starts on whatever history *)
(* is stored.  A stored history is one of                                  *)
(*   - u1 logged once a day for the last run days, at the hour the server  *)
(*     starts (oldest first), and u2 logged once today;                    *)
(*   - u1 logged FetchCap times yesterday.                                 *)
(* Spec starts on the histories of the first kind, SpecCap on the second.  *)
(* Ids 1..MaxOps are the uuids the behaviour's create_habit calls draw.    *)
RunHistory(run) ==
    [j \in 1..run |->
        HabitDoc(MaxOps + 1 + (run - j), "u1", PostedName, StartTick - Days(run - j))]
      \o <<HabitDoc(MaxOps + 1 + run, "u2", PostedName, StartTick)>>

BulkHistory ==
    [j \in 1..FetchCap |->
        HabitDoc(MaxOps + j, "u1", PostedName, StartTick - Days(1))]

\* the run lengths around the week, the month and the streak limit
RunLengths == {0, 3, WeekDays, WeekDays + 1, StreakDays, MaxRun}

Histories == {RunHistory(run) : run \in RunLengths}

\* a response of a habit route: the route, the user and the habit id that
\* were asked, the status code and the habits of the body
Reply(route, uid, habit_id, status, body) ==
    [route |-> route, uid |-> uid, habit_id |-> habit_id, status |-> status,
     body |-> body]

NoReply == Reply("none", "none", 0, 0, <<>>)

\* no update_habit is between its awaits
NoUpdate == [pc |-> "idle"]

\* user_doc; the fields no route of the model reads are left out.  The
\* uuid4 of a user is the number of the account
UserDoc(id, email) == [id |-> id, email |-> email]

\* the accounts of u1 and u2, stored before the server starts
StoredUsers == <<UserDoc(1, "u1@example.org"), UserDoc(2, "u2@example.org")>>

\* the signup requests of a behaviour
Requests == 1..MaxSignups

\* a signup request that has not been made
NoSignup == [pc |-> "idle"]

\* no get_ai_insights request is being served
NoInsights == [pc |-> "idle"]

\* the server starts on the stored history
InitOn(stored) ==
    /\ clock = StartTick
    /\ habits = stored
    /\ next_id = 1
    /\ ops = 0
    /\ pc = "idle"
    /\ req_user = "none"
    /\ now = 0
    /\ all_habits = <<>>
    /\ fetched_from = <<>>
    /\ fetches = 0
    /\ interleaved = {}
    /\ store_failed = FALSE
    /\ outcome = "none"
    /\ response = NoStats
    /\ reply = NoReply
    /\ upd = NoUpdate
    /\ deleted = <<>>
    /\ lost = {}
    /\ users = StoredUsers
    /\ signups = [r \in Requests |-> NoSignup]
    /\ ai = NoInsights

\* GEMINI_API_KEY is in the environment
Configured == gemini_api_key = TRUE

Init == Configured /\ \E stored \in Histories : InitOn(stored)

InitCap == Configured /\ InitOn(BulkHistory)

request_vars == <<pc, req_user, now, all_habits, fetched_from, fetches,
                  store_failed, outcome, response>>
store_vars == <<habits, next_id, ops>>
route_vars == <<reply, upd, deleted, lost>>
auth_vars == <<users, signups>>
insight_vars == <<gemini_api_key, ai>>

\* time passes
Tick ==
    /\ clock < StartTick + MaxTicks
    /\ clock' = clock + 1
    /\ UNCHANGED <<auth_vars, insight_vars, store_vars, request_vars, interleaved,
                   route_vars>>

\* a store request of kind what, made by uid, has run: it ran inside the
\* get_progress_stats request when that request is waiting and is uid's
Interleave(uid, what) ==
    IF pc = "fetching" /\ req_user = uid
    THEN interleaved \cup {what}
    ELSE interleaved

\* the dates a client sends with POST /habits: none, or an explicit datetime
NoDate == -1
DateInputs == {NoDate, clock + 1, clock - Days(GapOffset)}

\* POST /habits
create_habit(uid, date) ==
    /\ ops < MaxOps
    /\ LET habit_date == IF date # NoDate THEN date ELSE clock
           habit_doc == HabitDoc(next_id, uid, PostedName, habit_date)
       IN /\ habits' = Append(habits, habit_doc)
          /\ reply' = Reply("create_habit", uid, next_id, 200, <<habit_doc>>)
    /\ next_id' = next_id + 1
    /\ ops' = ops + 1
    /\ interleaved' = Interleave(uid, "create")
    /\ UNCHANGED <<auth_vars, insight_vars, clock, request_vars, upd, deleted, lost>>

\* faulty variant: the filter is {"id": habit_id}, the owner is not asked for
MatchesAnyOwner(store, habit_id, uid) ==
    {k \in 1..Len(store) : store[k].id = habit_id}

\* the documents db.habits.delete_one({"id": habit_id, "user_id": uid}) matches
Matches(store, habit_id, uid) ==
    {k \in 1..Len(store) : store[k].id = habit_id /\ store[k].user_id = uid}

\* delete_one: the first match goes
DeleteOne(store, habit_id, uid) ==
    LET hits == Matches(store, habit_id, uid)
    IN IF hits = {} THEN store
       ELSE LET first == CHOOSE k \in hits : \A j \in hits : k <= j
            IN SubSeq(store, 1, first - 1) \o SubSeq(store, first + 1, Len(store))

\* DELETE /habits/{habit_id}; deleted_count == 0 is the 404
delete_habit(uid, habit_id) ==
    /\ ops < MaxOps
    /\ habits' = DeleteOne(habits, habit_id, uid)
    /\ IF Matches(habits, habit_id, uid) = {}
       THEN /\ reply' = Reply("delete_habit", uid, habit_id, 404, <<>>)
            /\ UNCHANGED <<ops, interleaved, deleted>>
       ELSE /\ reply' = Reply("delete_habit", uid, habit_id, 200, <<>>)
            /\ ops' = ops + 1
            /\ interleaved' = Interleave(uid, "delete")
            /\ deleted' = Append(deleted, [uid |-> uid, id |-> habit_id,
                                           next_id |-> next_id])
    /\ UNCHANGED <<auth_vars, insight_vars, clock, next_id, request_vars, upd, lost>>

\* db.habits.find_one({"id": habit_id, "user_id": uid}): a list of one
\* document, or of none
FindOne(store, habit_id, uid) ==
    LET hits == Matches(store, habit_id, uid)
    IN IF hits = {} THEN <<>>
       ELSE <<store[CHOOSE k \in hits : \A j \in hits : k <= j]>>

\* GET /habits: find({"user_id": uid}).sort("date", -1).to_list(1000)
get_user_habits(uid) ==
    /\ reply' = Reply("get_user_habits", uid, 0, 200,
                      Take(SortedByDateDesc(FindByUser(habits, uid)), FetchCap))
    /\ UNCHANGED <<auth_vars, insight_vars, clock, store_vars, request_vars, interleaved, upd, deleted, lost>>

\* GET /habits/{habit_id}
get_habit(uid, habit_id) ==
    /\ LET habit == FindOne(habits, habit_id, uid)
       IN reply' = IF habit = <<>>
                   THEN Reply("get_habit", uid, habit_id, 404, <<>>)
                   ELSE Reply("get_habit", uid, habit_id, 200, habit)
    /\ UNCHANGED <<auth_vars, insight_vars, clock, store_vars, request_vars, interleaved, upd, deleted, lost>>

\* the habit_name of a HabitUpdate: None, or a name
NoName == "None"
NameInputs == {NoName, PutName}

\* PUT /habits/{habit_id} up to its second await: the find_one, the 404, and
\* the whole handler when update_data is empty
update_habit(uid, habit_id, habit_name) ==
    /\ upd = NoUpdate
    /\ LET habit == FindOne(habits, habit_id, uid)
       IN IF habit = <<>>
          THEN /\ reply' = Reply("update_habit", uid, habit_id, 404, <<>>)
               /\ UNCHANGED upd
          ELSE IF habit_name = NoName
          THEN /\ reply' = Reply("update_habit", uid, habit_id, 200, habit)
               /\ UNCHANGED upd
          ELSE /\ upd' = [pc |-> "writing", uid |-> uid, habit_id |-> habit_id,
                          habit_name |-> habit_name, habit |-> habit[1]]
               /\ UNCHANGED reply
    /\ UNCHANGED <<auth_vars, insight_vars, clock, store_vars, request_vars, interleaved, deleted, lost>>

\* the documents update_one({"id": habit_id}, ...) matches
MatchesId(store, habit_id) == {k \in 1..Len(store) : store[k].id = habit_id}

\* update_one({"id": habit_id}, {"$set": {"habit_name": habit_name}}): the
\* first match is changed, and nothing is inserted when there is none
UpdateOne(store, habit_id, habit_name) ==
    LET hits == MatchesId(store, habit_id)
    IN IF hits = {} THEN store
       ELSE LET first == CHOOSE k \in hits : \A j \in hits : k <= j
            IN [store EXCEPT ![first].habit_name = habit_name]

\* faulty variant: the handler writes its own copy of the habit back,
\* replace_one({"id": habit_id}, habit, upsert=True)
update_habit_set_upsert ==
    /\ upd # NoUpdate
    /\ LET habit == [upd.habit EXCEPT !.habit_name = upd.habit_name]
           hits == MatchesId(habits, upd.habit_id)
       IN /\ habits' = IF hits = {} THEN Append(habits, habit)
                       ELSE UpdateOne(habits, upd.habit_id, upd.habit_name)
          /\ reply' = Reply("update_habit", upd.uid, upd.habit_id, 200, <<habit>>)
    /\ lost' = IF MatchesId(habits, upd.habit_id) = {}
               THEN lost \cup {upd.habit_id} ELSE lost
    /\ upd' = NoUpdate
    /\ UNCHANGED <<auth_vars, insight_vars, clock, next_id, ops, request_vars, interleaved, deleted>>

\* PUT /habits/{habit_id} from its second await: the update_one returns,
\* habit.update(update_data), and the local habit is the response
update_habit_set ==
    /\ upd # NoUpdate
    /\ habits' = UpdateOne(habits, upd.habit_id, upd.habit_name)
    /\ reply' = Reply("update_habit", upd.uid, upd.habit_id, 200,
                      <<[upd.habit EXCEPT !.habit_name = upd.habit_name]>>)
    /\ lost' = IF MatchesId(habits, upd.habit_id) = {}
               THEN lost \cup {upd.habit_id} ELSE lost
    /\ upd' = NoUpdate
    /\ UNCHANGED <<auth_vars, insight_vars, clock, next_id, ops, request_vars, interleaved, deleted>>

\* GET /progress, up to the await: now = datetime.utcnow()
progress_begin(uid) ==
    /\ pc = "idle"
    /\ pc' = "fetching"
    /\ req_user' = uid
    /\ now' = clock
    /\ UNCHANGED <<auth_vars, insight_vars, clock, store_vars, all_habits, fetched_from, fetches,
                   interleaved, store_failed, outcome, response,
                   route_vars>>

\* faulty variant: total_habits comes from a second read of the store, made
\* after a second await
progress_fetch_two_reads ==
    \/ /\ pc = "fetching"
       /\ pc' = "counting"
       /\ all_habits' = FetchUserHabits(habits, req_user)
       /\ fetched_from' = habits
       /\ fetches' = fetches + 1
       /\ UNCHANGED <<auth_vars, insight_vars, clock, store_vars, req_user, now, interleaved, store_failed,
                      outcome, response,
                   route_vars>>
    \/ /\ pc = "counting"
       /\ pc' = "done"
       /\ fetches' = fetches + 1
       /\ response' = [ProgressStats(all_habits, now) EXCEPT
                          !.total_habits = Len(FetchUserHabits(habits, req_user))]
       /\ outcome' = "ok"
       /\ UNCHANGED <<auth_vars, insight_vars, clock, store_vars, req_user, now, all_habits, fetched_from,
                      interleaved, store_failed,
                   route_vars>>

\* all_habits = await db.habits.find(...).to_list(1000) returns, and the rest
\* of get_progress_stats runs without suspending
progress_fetch ==
    /\ pc = "fetching"
    /\ pc' = "done"
    /\ all_habits' = FetchUserHabits(habits, req_user)
    /\ fetched_from' = habits
    /\ fetches' = fetches + 1
    /\ response' = ProgressStats(all_habits', now)
    /\ outcome' = "ok"
    /\ UNCHANGED <<auth_vars, insight_vars, clock, store_vars, req_user, now, interleaved, store_failed,
                   route_vars>>

\* faulty variant: the failure is caught and the statistics of no entries returned
progress_fetch_error_swallowed ==
    /\ pc = "fetching"
    /\ pc' = "done"
    /\ fetches' = fetches + 1
    /\ store_failed' = TRUE
    /\ outcome' = "ok"
    /\ response' = ProgressStats(<<>>, now)
    /\ UNCHANGED <<auth_vars, insight_vars, clock, store_vars, req_user, now, all_habits, fetched_from,
                   interleaved,
                   route_vars>>

\* the await raises (the store cannot be reached): nothing catches it, the
\* request ends in an error response
progress_fetch_error ==
    /\ pc = "fetching"
    /\ pc' = "done"
    /\ fetches' = fetches + 1
    /\ store_failed' = TRUE
    /\ outcome' = "error"
    /\ UNCHANGED <<auth_vars, insight_vars, clock, store_vars, req_user, now, all_habits, fetched_from,
                   interleaved, response,
                   route_vars>>

\* the response is delivered: the request and its locals are gone
progress_end ==
    /\ pc = "done"
    /\ pc' = "idle"
    /\ req_user' = "none"
    /\ now' = 0
    /\ all_habits' = <<>>
    /\ fetched_from' = <<>>
    /\ fetches' = 0
    /\ interleaved' = {}
    /\ store_failed' = FALSE
    /\ outcome' = "none"
    /\ response' = NoStats
    /\ UNCHANGED <<auth_vars, insight_vars, clock, store_vars,
                   route_vars>>

\* the habit ids a client asks for: the ones create_habit draws and the
\* first two of a stored history
HabitIds == 1..(MaxOps + 2)

\* db.users.find_one({"email": email}): a list of one document, or of none
FindByEmail(store, email) ==
    LET hits == {k \in 1..Len(store) : store[k].email = email}
    IN IF hits = {} THEN <<>>
       ELSE <<store[CHOOSE k \in hits : \A j \in hits : k <= j]>>

\* the emails clients sign up with: a registered one and two new ones
SignupEmails == {"u1@example.org", "new@example.org", "other@example.org"}

\* POST /auth/signup up to its second await: the find_one returns, and the
\* 400 when the email is registered
signup(r, email) ==
    /\ signups[r].pc = "idle"
    /\ signups' = [signups EXCEPT ![r] =
                      IF FindByEmail(users, email) # <<>>
                      THEN [pc |-> "done", email |-> email, status |-> 400,
                            detail |-> "Email already registered"]
                      ELSE [pc |-> "inserting", email |-> email]]
    /\ UNCHANGED <<insight_vars, clock, store_vars, request_vars, interleaved,
                   route_vars, users>>

\* POST /auth/signup from its second await: the insert_one returns and the
\* token is the response
signup_insert(r) ==
    /\ signups[r].pc = "inserting"
    /\ users' = Append(users, UserDoc(Len(users) + 1, signups[r].email))
    /\ signups' = [signups EXCEPT ![r] =
                      [pc |-> "done", email |-> signups[r].email, status |-> 200,
                       detail |-> "Token"]]
    /\ UNCHANGED <<insight_vars, clock, store_vars, request_vars, interleaved,
                   route_vars>>

\* --------------------------------------------------------- get_ai_insights
(* A Python str is a sequence of pieces; an f-string puts str(n) between   *)
(* its pieces.  len(s) > 0 when a piece is not empty.                      *)
Str(text) == <<text>>

\* AIInsight(insight_type=..., title=..., content=..., emoji=...)
AIInsight(insight_type, title, content, emoji) ==
    [insight_type |-> insight_type, title |-> title, content |-> content,
     emoji |-> emoji]

\* the fields AIInsight requires
InsightFields == {"insight_type", "title", "content", "emoji"}

(* What chat.send_message returns is a text of tokens: an opening fence    *)
(* with the word json, a bare fence, prose, or the text of a JSON value.   *)
(* A JSON value is an array of items, an object with keys, or a number; an *)
(* item of an array is an object with string fields, or a number.          *)
FenceJson == [kind |-> "fence json"]
Fence == [kind |-> "fence"]
Prose == [kind |-> "prose"]
Json(value) == [kind |-> "json", value |-> value]

JArray(items) == [type |-> "array", items |-> items, keys |-> {}]
JObject(keys) == [type |-> "object", items |-> <<>>, keys |-> keys]
JNumber == [type |-> "number", items |-> <<>>, keys |-> {}]

ItemObject(fields) == [type |-> "object", fields |-> fields]
ItemNumber == [type |-> "number", fields |-> [n |-> <<>>]]

\* the three insights the prompt asks for
AskedTip ==
    ItemObject(AIInsight(Str("tip"), Str("Sustainability Tip"),
                         Str("Bring a reusable bottle"), Str("bulb")))
AskedMotivation ==
    ItemObject(AIInsight(Str("motivation"), Str("Motivational Message"),
                         Str("You are doing well"), Str("star")))
AskedSuggestion ==
    ItemObject(AIInsight(Str("suggestion"), Str("New Habit Suggestion"),
                         Str("Try composting"), Str("seedling")))
Asked == JArray(<<AskedTip, AskedMotivation, AskedSuggestion>>)

\* other items a model may write: a tip with empty content, a fourth type,
\* an object without emoji
EmptyTip ==
    ItemObject(AIInsight(Str("tip"), Str("Sustainability Tip"), Str(""),
                         Str("bulb")))
Impact ==
    ItemObject(AIInsight(Str("impact"), Str("Your Impact"),
                         Str("You saved 3 kg of CO2"), Str("globe")))
NoEmoji ==
    ItemObject([insight_type |-> Str("tip"), title |-> Str("Sustainability Tip"),
                content |-> Str("Bring a reusable bottle")])

\* the texts chat.send_message returns
LlmTexts ==
    {<<Json(Asked)>>,
     <<FenceJson, Json(Asked), Fence>>,
     <<Fence, Json(Asked), Fence>>,
     <<Prose>>,
     <<Prose, Json(Asked)>>,
     <<Json(JArray(<<AskedTip>>))>>,
     <<Json(JArray(<<>>))>>,
     <<Json(JArray(<<AskedTip, AskedTip, AskedTip>>))>>,
     <<Json(JArray(<<EmptyTip, AskedMotivation, AskedSuggestion>>))>>,
     <<Json(JArray(<<AskedTip, AskedMotivation, AskedSuggestion, Impact>>))>>,
     <<Json(JArray(<<NoEmoji, AskedMotivation, AskedSuggestion>>))>>,
     <<Json(JArray(<<ItemNumber>>))>>,
     <<Json(JObject({"insights"}))>>,
     <<Json(JObject({}))>>,
     <<Json(JNumber)>>}

\* what the await of chat.send_message does: it raises, or returns a text
LlmOutcomes ==
    {[raises |-> TRUE, text |-> <<>>]}
        \cup {[raises |-> FALSE, text |-> t] : t \in LlmTexts}

\* response_text[7:] if it starts with the json fence, and then
\* response_text[:-3] if it ends with a fence
StripFences(text) ==
    LET opened == IF text # <<>> /\ text[1].kind = "fence json"
                  THEN Tail(text) ELSE text
    IN IF opened # <<>> /\ opened[Len(opened)].kind = "fence"
       THEN Front(opened) ELSE opened

\* json.loads: the text is the text of one JSON value, or JSONDecodeError
JsonLoads(text) ==
    IF Len(text) = 1 /\ text[1].kind = "json"
    THEN [ok |-> TRUE, value |-> text[1].value]
    ELSE [ok |-> FALSE, value |-> JNumber]

\* the fallback of the inner except json.JSONDecodeError, as AIInsight
DecodeFallback(this_week, current_streak) ==
    <<AIInsight(Str("tip"), Str("Great Progress!"),
                <<"You've logged ", ToString(this_week),
                  " habits this week! Keep building that momentum.">>,
                Str("bulb")),
      AIInsight(Str("motivation"), Str("Streak Power"),
                <<"Your ", ToString(current_streak),
                  "-day streak shows real commitment to sustainability!">>,
                Str("star")),
      AIInsight(Str("suggestion"), Str("Try Something New"),
                Str("Consider starting a small herb garden"), Str("seedling"))>>

\* fallback_insights of the outer except Exception
FallbackInsights(habits_len) ==
    <<AIInsight(Str("tip"), Str("Keep It Up!"),
                <<"You've made great progress with ", ToString(habits_len),
                  " sustainable actions!">>,
                Str("bulb")),
      AIInsight(Str("motivation"), Str("Every Action Counts"),
                Str("Your commitment to sustainability is making a real difference!"),
                Str("star")),
      AIInsight(Str("suggestion"), Str("Try Something New"),
                Str("Consider adding a new green habit to expand your impact!"),
                Str("seedling"))>>

\* AIInsight(**insight) raises: insight is no mapping, or a field is missing
InsightRaises(item) ==
    item.type # "object" \/ ~(InsightFields \subseteq DOMAIN item.fields)

\* [AIInsight(**insight) for insight in insights_data] raises: insights_data
\* is not iterable, or it is a dict with a key (a str is no mapping), or an
\* item raises
ConvertRaises(value) ==
    \/ value.type = "number"
    \/ value.type = "object" /\ value.keys # {}
    \/ value.type = "array"
          /\ \E k \in 1..Len(value.items) : InsightRaises(value.items[k])

\* [AIInsight(**insight) for insight in insights_data], when it does not raise
Convert(value) ==
    [k \in 1..Len(value.items) |->
        AIInsight(value.items[k].fields.insight_type, value.items[k].fields.title,
                  value.items[k].fields.content, value.items[k].fields.emoji)]

\* the list get_ai_insights returns once chat.send_message has been awaited
Insights(llm, habits_len, this_week, current_streak) ==
    IF llm.raises THEN FallbackInsights(habits_len)
    ELSE LET loaded == JsonLoads(StripFences(llm.text))
         IN IF ~loaded.ok THEN DecodeFallback(this_week, current_streak)
            ELSE IF ConvertRaises(loaded.value) THEN FallbackInsights(habits_len)
            ELSE Convert(loaded.value)

\* POST /ai/insights up to its first await; the 500 when no key is set
get_ai_insights(uid) ==
    /\ ai = NoInsights
    /\ ai' = IF ~gemini_api_key
             THEN [pc |-> "done", uid |-> uid, status |-> 500,
                   detail |-> "AI service not configured", body |-> <<>>]
             ELSE [pc |-> "fetching", uid |-> uid]
    /\ UNCHANGED <<auth_vars, gemini_api_key, clock, store_vars, request_vars,
                   interleaved, route_vars>>

\* habits = await db.habits.find(...).sort("date", -1).to_list(100) returns;
\* the statistics are computed and chat.send_message is awaited
insights_fetch ==
    /\ ai.pc = "fetching"
    /\ LET found == Take(SortedByDateDesc(FindByUser(habits, ai.uid)), InsightCap)
       IN ai' = [pc |-> "asking", uid |-> ai.uid, habits_len |-> Len(found),
                 this_week |-> ThisWeek(found, clock),
                 current_streak |-> CurrentStreak(found, clock)]
    /\ UNCHANGED <<auth_vars, gemini_api_key, clock, store_vars, request_vars,
                   interleaved, route_vars>>

\* the await of the find raises: the except block evaluates len(habits) with
\* habits unbound, which raises out of the handler
insights_fetch_error ==
    /\ ai.pc = "fetching"
    /\ ai' = [pc |-> "done", uid |-> ai.uid, status |-> 500,
              detail |-> "Internal Server Error", body |-> <<>>]
    /\ UNCHANGED <<auth_vars, gemini_api_key, clock, store_vars, request_vars,
                   interleaved, route_vars>>

\* the await of chat.send_message ends, and the rest of the handler runs
insights_answer(llm) ==
    /\ ai.pc = "asking"
    /\ ai' = [pc |-> "done", uid |-> ai.uid, status |-> 200, detail |-> "OK",
              body |-> Insights(llm, ai.habits_len, ai.this_week,
                                ai.current_streak),
              habits_len |-> ai.habits_len, llm |-> llm]
    /\ UNCHANGED <<auth_vars, gemini_api_key, clock, store_vars, request_vars,
                   interleaved, route_vars>>

\* the response is delivered
insights_end ==
    /\ ai.pc = "done"
    /\ ai' = NoInsights
    /\ UNCHANGED <<auth_vars, gemini_api_key, clock, store_vars, request_vars,
                   interleaved, route_vars>>

(* A finished request is looked at before anything else happens: what the  *)
(* other requests do after the response is computed cannot change it.  A   *)
(* delete_habit that finds no habit changes nothing get_progress_stats     *)
(* reads; NextHabits has it.                                               *)
Next ==
    \/ pc # "done" /\ Tick
    \/ pc # "done" /\ \E uid \in Users, date \in DateInputs : create_habit(uid, date)
    \/ pc # "done" /\ \E uid \in Users, habit_id \in HabitIds :
                          /\ Matches(habits, habit_id, uid) # {}
                          /\ delete_habit(uid, habit_id)
    \/ \E uid \in Users : progress_begin(uid)
    \/ progress_fetch
    \/ progress_fetch_error
    \/ progress_end

Spec == Init /\ [][Next]_vars

\* the same requests on the bulk history, every habit posted without a date
NextCap ==
    \/ pc # "done" /\ Tick
    \/ pc # "done" /\ \E uid \in Users : create_habit(uid, NoDate)
    \/ pc # "done" /\ \E uid \in Users, habit_id \in HabitIds :
                          /\ Matches(habits, habit_id, uid) # {}
                          /\ delete_habit(uid, habit_id)
    \/ \E uid \in Users : progress_begin(uid)
    \/ progress_fetch
    \/ progress_fetch_error
    \/ progress_end

SpecCap == InitCap /\ [][NextCap]_vars

\* the habit routes on a store of one habit of each user; a habit is posted
\* without a date or with an earlier one
InitHabits == Configured /\ InitOn(RunHistory(1))

NextHabits ==
    \/ \E uid \in Users, date \in {NoDate, clock - Days(GapOffset)} :
          create_habit(uid, date)
    \/ \E uid \in Users, habit_id \in HabitIds : delete_habit(uid, habit_id)
    \/ \E uid \in Users : get_user_habits(uid)
    \/ \E uid \in Users, habit_id \in HabitIds : get_habit(uid, habit_id)
    \/ \E uid \in Users, habit_id \in HabitIds, habit_name \in NameInputs :
          update_habit(uid, habit_id, habit_name)
    \/ update_habit_set

SpecHabits == InitHabits /\ [][NextHabits]_vars

\* signup on the accounts of u1 and u2, no habit stored
InitSignup == Configured /\ InitOn(<<>>)

\* the signup requests, running concurrently
NextSignup ==
    \/ \E r \in Requests, email \in SignupEmails : signup(r, email)
    \/ \E r \in Requests : signup_insert(r)

SpecSignup == InitSignup /\ [][NextSignup]_vars

\* get_ai_insights with and without GEMINI_API_KEY, on a store that habits
\* are posted to
InitInsights ==
    /\ gemini_api_key \in BOOLEAN
    /\ \E stored \in {RunHistory(0), RunHistory(3)} : InitOn(stored)

NextInsights ==
    \/ Tick
    \/ \E uid \in Users : create_habit(uid, NoDate)
    \/ \E uid \in Users : get_ai_insights(uid)
    \/ insights_fetch
    \/ insights_fetch_error
    \/ \E llm \in LlmOutcomes : insights_answer(llm)
    \/ insights_end

SpecInsights == InitInsights /\ [][NextInsights]_vars

\* ================================================================= claims
\* get_progress_stats has returned a ProgressStats
Returned == pc = "done" /\ outcome = "ok"

\* today = now.date()
Today == DateOf(now)

\* the requesting user's entries in the store, as the fetch found it
Mine == {k \in 1..Len(fetched_from) : fetched_from[k].user_id = req_user}

\* the calendar days on which the user has an entry
EntryDays == {DateOf(fetched_from[k].date) : k \in Mine}

\* the number of the user's entries on a calendar day
EntriesOn(day) == Cardinality({k \in Mine : DateOf(fetched_from[k].date) = day})

\* the user has no more entries than one fetch returns
WithinCap == Cardinality(Mine) <= FetchCap

\* the number of consecutive days with an entry, counted back from today and
\* no further than 30 days
ConsecutiveDays ==
    CHOOSE n \in 0..30 :
        /\ \A i \in 0..(n - 1) : Today - i \in EntryDays
        /\ n = 30 \/ Today - n \notin EntryDays

\* the streak the claim C1 describes
StreakAsClaimed ==
    /\ response.current_streak = ConsecutiveDays
    /\ response.current_streak \in 0..30
    /\ EntryDays = {Today, Today - 1, Today - 2, Today - 10}
          => response.current_streak = 3

(* C1: for every set of entries of the user and every now, current_streak  *)
(* is the number of consecutive calendar days, counted back from today,    *)
(* that each hold at least one entry, stopping at the first day without    *)
(* one and never above 30; entries on today, today-1, today-2 and today-10 *)
(* only give 3.  The code breaks this once the user has more than FetchCap *)
(* entries: the fetch drops the later ones.                                *)
C1_Streak == Returned => StreakAsClaimed

\* C1 restricted to users with at most FetchCap entries, where it holds
C1_StreakWithinCap == Returned /\ WithinCap => StreakAsClaimed

C1_Scenario ==
    /\ Returned
    /\ EntryDays = {Today, Today - 1, Today - 2, Today - 10}
    /\ response.current_streak = 3

C1_StreakLimit ==
    /\ Returned
    /\ \A i \in 0..30 : Today - i \in EntryDays
    /\ response.current_streak = 30

(* C2: whatever the entries (none, a few, more than the fetch returns) and *)
(* whatever now, weekly_progress has 7 elements and monthly_progress 30.   *)
C2_Lengths ==
    Returned => /\ Len(response.weekly_progress) = 7
                /\ Len(response.monthly_progress) = 30

C2_Witness ==
    /\ Returned
    /\ ~WithinCap
    /\ Len(response.weekly_progress) = 7
    /\ Len(response.monthly_progress) = 30

\* the progress sequences the claim C3 describes
ProgressAsClaimed ==
    /\ DOMAIN response.weekly_progress = 1..7
    /\ DOMAIN response.monthly_progress = 1..30
    /\ \A k \in 0..6 :
          response.weekly_progress[k + 1] = EntriesOn(Today - 6 + k)
    /\ \A k \in 0..29 :
          response.monthly_progress[k + 1] = EntriesOn(Today - 29 + k)

(* C3: weekly_progress and monthly_progress are oldest first: element k of *)
(* the N-element sequence is the number of the user's entries on calendar  *)
(* day today-(N-1)+k, the last element the count for today.  The code      *)
(* breaks this once the user has more than FetchCap entries.               *)
C3_OldestFirst == Returned => ProgressAsClaimed

\* C3 restricted to users with at most FetchCap entries, where it holds
C3_OldestFirstWithinCap == Returned /\ WithinCap => ProgressAsClaimed

C3_Witness ==
    /\ Returned
    /\ EntriesOn(Today) = 0
    /\ EntriesOn(Today - 1) = 1
    /\ EntriesOn(Today - 29) = 1
    /\ response.weekly_progress[6] = 1
    /\ response.monthly_progress[1] = 1

\* sum(s)
RECURSIVE SumSeq(_)
SumSeq(s) == IF s = <<>> THEN 0 ELSE Head(s) + SumSeq(Tail(s))

\* no two entries of the user lie on the same calendar day
DistinctDays ==
    \A j, k \in Mine :
        j # k => DateOf(fetched_from[j].date) # DateOf(fetched_from[k].date)

\* every entry of the user lies in the 7-day window of this_week
InWeekWindow ==
    \A k \in Mine :
        fetched_from[k].date >= now - Days(7) /\ fetched_from[k].date <= now

\* every entry of the user lies on one of the seven calendar days that
\* weekly_progress buckets
InWeekBuckets ==
    \A k \in Mine : DateOf(fetched_from[k].date) \in (Today - 6)..Today

(* C4 as stated: sum(weekly_progress) = this_week whenever all entries     *)
(* fall on distinct calendar days within the 7-day window (date >= now - 7 *)
(* days), nothing being counted twice or lost at the window boundary.  An  *)
(* entry of day today-7 that is no older than 7 days is counted by         *)
(* this_week and lies in no bucket of weekly_progress.                     *)
C4_AsStated ==
    Returned /\ InWeekWindow /\ DistinctDays
        => SumSeq(response.weekly_progress) = response.this_week

(* C4 amended: sum(weekly_progress) = this_week whenever all entries fall  *)
(* on distinct calendar days among the seven that weekly_progress buckets, *)
(* today-6 through today.                                                  *)
C4_WeekSum ==
    Returned /\ InWeekBuckets /\ DistinctDays
        => SumSeq(response.weekly_progress) = response.this_week

C4_Witness ==
    /\ Returned
    /\ InWeekBuckets
    /\ DistinctDays
    /\ EntriesOn(Today - 6) = 1
    /\ EntriesOn(Today) = 1
    /\ response.this_week = 7
    /\ SumSeq(response.weekly_progress) = 7

(* C5: total_habits is the number of all entries in the store whose        *)
(* user_id is the requesting user's, whatever that number is.  The code    *)
(* returns at most FetchCap.                                               *)
C5_Total == Returned => response.total_habits = Cardinality(Mine)

\* C5 restricted to users with at most FetchCap entries, where it holds
C5_TotalWithinCap ==
    Returned /\ WithinCap => response.total_habits = Cardinality(Mine)

(* C6: current_streak = 0 whenever the user has no entry on today, however *)
(* many entries there are on earlier days.                                 *)
C6_NoEntryToday ==
    Returned /\ Today \notin EntryDays => response.current_streak = 0

C6_Witness ==
    /\ Returned
    /\ Today \notin EntryDays
    /\ \A i \in 1..30 : Today - i \in EntryDays
    /\ response.current_streak = 0

\* no entry of the user is dated after now
NoneInFuture == \A k \in Mine : fetched_from[k].date <= now

(* C7: this_week <= this_month <= total_habits whenever every entry has    *)
(* date <= now.                                                            *)
C7_Ordered ==
    Returned /\ NoneInFuture
        => /\ response.this_week <= response.this_month
           /\ response.this_month <= response.total_habits

C7_Witness ==
    /\ Returned
    /\ NoneInFuture
    /\ 0 < response.this_week
    /\ response.this_week < response.this_month
    /\ response.this_month < response.total_habits

\* 0.0 <= x <= 100.0
IsPercentage(x) == ~FLess(x, FZero) /\ ~FLess(FFromInt(100), x)

\* two doubles that are equal or next to each other
WithinOneUlp(a, b) ==
    \/ a = b
    \/ a # FZero /\ FNextUp(a) = b
    \/ b # FZero /\ FNextUp(b) = a

(* C8 as stated: completion_percentage is 100 whenever this_month >= 30    *)
(* and this_month * 100 / 30 otherwise, always defined and within          *)
(* [0, 100].  In Python's floats (this_month / 30) * 100, which the code   *)
(* computes, is not always this_month * 100 / 30.                          *)
C8_AsStated ==
    Returned =>
        /\ response.this_month >= 30
              => response.completion_percentage = FFromInt(100)
        /\ response.this_month < 30
              => response.completion_percentage
                    = FDivInt(response.this_month * 100, 30)
        /\ IsPercentage(response.completion_percentage)

(* C8 amended: completion_percentage is 100 whenever this_month >= 30 and  *)
(* otherwise the double this_month * 100 / 30 or a double next to it;      *)
(* always defined and within [0, 100].                                     *)
C8_Completion ==
    Returned =>
        /\ response.this_month >= 30
              => response.completion_percentage = FFromInt(100)
        /\ response.this_month < 30
              => WithinOneUlp(response.completion_percentage,
                              FDivInt(response.this_month * 100, 30))
        /\ IsPercentage(response.completion_percentage)

C8_Witness ==
    /\ Returned
    /\ response.this_month = 5
    /\ response.completion_percentage # FDivInt(500, 30)
    /\ FNextUp(response.completion_percentage) = FDivInt(500, 30)

C8_WitnessCapped ==
    /\ Returned
    /\ response.this_month > 30
    /\ response.completion_percentage = FFromInt(100)

(* C9: with no entry of the user every count is 0, completion_percentage   *)
(* is 0, weekly_progress is seven zeros and monthly_progress thirty zeros, *)
(* for every now.                                                          *)
C9_Empty ==
    Returned /\ Mine = {} =>
        response = [total_habits |-> 0,
                    this_week |-> 0,
                    this_month |-> 0,
                    current_streak |-> 0,
                    completion_percentage |-> FZero,
                    weekly_progress |-> [k \in 1..7 |-> 0],
                    monthly_progress |-> [k \in 1..30 |-> 0]]

C9_Witness ==
    /\ Returned
    /\ Mine = {}
    /\ fetched_from # <<>>
    /\ response.total_habits = 0

(* C10: when the fetch of the user's entries fails, the request ends in an *)
(* error and no ProgressStats is returned (no all-zero one, none computed  *)
(* from partial data), and the fetch is not tried again.                   *)
C10_FetchFailure ==
    /\ fetches <= 1
    /\ pc = "done" /\ store_failed
          => outcome = "error" /\ response = NoStats /\ fetches = 1

C10_Witness ==
    /\ pc = "done"
    /\ store_failed
    /\ outcome = "error"
    /\ Len(FindByUser(habits, req_user)) > 0

\* the entries the request's one fetch returns from the store as it found it
Snapshot == FetchUserHabits(fetched_from, req_user)

(* C11: when create_habit and delete_habit requests of the same user run   *)
(* while a get_progress_stats request is in flight, the request fetches    *)
(* once, all seven returned fields are the aggregation of the store as     *)
(* that one fetch found it, and the fields are consistent with each other: *)
(* sum(weekly_progress) <= sum(monthly_progress) <= total_habits.          *)
C11_OneSnapshot ==
    Returned =>
        /\ fetches = 1
        /\ all_habits = Snapshot
        /\ response = ProgressStats(all_habits, now)
        /\ response.total_habits = Len(all_habits)
        /\ \A k \in 1..30 :
              response.monthly_progress[k]
                 = Cardinality({j \in 1..Len(all_habits) :
                                  DateOf(all_habits[j].date) = Today - 30 + k})
        /\ SumSeq(response.weekly_progress) <= SumSeq(response.monthly_progress)
        /\ SumSeq(response.monthly_progress) <= response.total_habits

C11_Witness ==
    /\ Returned
    /\ interleaved = {"create", "delete"}
    /\ fetched_from # <<>>
    /\ \E k \in 1..Len(fetched_from) :
          fetched_from[k].id <= MaxOps /\ fetched_from[k].user_id = req_user
    /\ all_habits = Snapshot
    /\ 0 < SumSeq(response.monthly_progress)
    /\ SumSeq(response.monthly_progress) < response.total_habits

\* the length of the longest suffix of s whose elements are all above 0
PositiveSuffix(s) ==
    CHOOSE n \in 0..Len(s) :
        /\ \A i \in 0..(n - 1) : s[Len(s) - i] > 0
        /\ n = Len(s) \/ ~(s[Len(s) - n] > 0)

(* C14: the streak pass and the day-bucket passes put every entry on the   *)
(* same calendar day: in every result current_streak is the length of the  *)
(* longest suffix of monthly_progress whose elements are all above 0, so 0 *)
(* when the last element is 0 and 30 when all thirty are above 0.          *)
C14_StreakIsSuffix ==
    Returned =>
        /\ response.current_streak = PositiveSuffix(response.monthly_progress)
        /\ response.monthly_progress[30] = 0 => response.current_streak = 0
        /\ (\A k \in 1..30 : response.monthly_progress[k] > 0)
              => response.current_streak = 30

C14_Witness ==
    /\ Returned
    /\ 0 < response.current_streak
    /\ response.current_streak < 30
    /\ response.monthly_progress[30 - response.current_streak] = 0
    /\ \E k \in 1..(29 - response.current_streak) :
          response.monthly_progress[k] > 0
    /\ response.current_streak = PositiveSuffix(response.monthly_progress)

C14_WitnessFull ==
    /\ Returned
    /\ \A k \in 1..30 : response.monthly_progress[k] > 0
    /\ response.current_streak = 30

\* the habits of the last response
Listed == {reply.body[k] : k \in 1..Len(reply.body)}

(* C12: once delete_habit has succeeded for habit id h asked by its owner, *)
(* no later get_user_habits response for that user holds a habit with id   *)
(* h, whatever create_habit, update_habit and delete_habit requests run    *)
(* after the delete.  (reply is the response of the request that answered  *)
(* last, so a get_user_habits response in it is later than every delete    *)
(* in deleted.)                                                            *)
C12_DeletedStaysGone ==
    reply.route = "get_user_habits" =>
        \A d \in 1..Len(deleted) :
            deleted[d].uid = reply.uid
                => \A h \in Listed : h.id # deleted[d].id

\* the user lists their habits after their delete of h, an update_habit of h
\* that had found h before the delete and wrote after it, and a later
\* create_habit
C12_Witness ==
    /\ reply.route = "get_user_habits"
    /\ \E d \in 1..Len(deleted) :
          /\ deleted[d].uid = reply.uid
          /\ deleted[d].id \in lost
          /\ \E h \in Listed : h.id >= deleted[d].next_id
          /\ \A h \in Listed : h.id # deleted[d].id

\* the users other than uid that have a habit with this id in the store
OtherOwners(store, habit_id, uid) ==
    {store[k].user_id : k \in {j \in 1..Len(store) :
                                  store[j].id = habit_id /\ store[j].user_id # uid}}

\* the routes that take a habit id
IdRoutes == {"get_habit", "update_habit", "delete_habit"}

\* a response never carries a habit of another user, and a request for the
\* id of another user's habit ends in 404
C16_Replies ==
    /\ \A h \in Listed : h.user_id = reply.uid
    /\ reply.route \in IdRoutes
          /\ OtherOwners(habits, reply.habit_id, reply.uid) # {}
          => reply.status = 404 /\ reply.body = <<>>

\* a step changes the habits of a user only when it is a request of that
\* user, and a request that ends in 404 leaves the store as it was
C16_Steps ==
    /\ \A b \in Users :
          FindByUser(habits', b) # FindByUser(habits, b) => reply'.uid = b
    /\ reply'.status = 404 => habits' = habits

(* C16: for two distinct users A and B and any get_habit, update_habit and *)
(* delete_habit requests of A with arbitrary habit ids, the ids of B's     *)
(* habits among them, B's habits are never returned to A, never modified   *)
(* and never deleted; the requests for B's ids end in 'Habit not found'    *)
(* with the store unchanged.                                               *)
C16_Isolation == []C16_Replies /\ [][C16_Steps]_vars

C16_Witness ==
    /\ reply.route = "delete_habit"
    /\ reply.status = 404
    /\ OtherOwners(habits, reply.habit_id, reply.uid) # {}
    /\ \E k \in 1..Len(habits) :
          habits[k] = HabitDoc(reply.habit_id, "u2", PostedName, StartTick)

\* no two user records have the same email
UniqueEmails ==
    \A j, k \in 1..Len(users) : j # k => users[j].email # users[k].email

\* a signup that is answered 'Email already registered' leaves db.users as
\* it was, and answers so only for an email that is registered
RejectedUnchanged ==
    \A r \in Requests :
        signups[r].pc = "idle" /\ signups'[r].pc = "done"
            => /\ signups'[r].status = 400
               /\ signups'[r].detail = "Email already registered"
               /\ FindByEmail(users, signups'[r].email) # <<>>
               /\ users' = users

(* C15: in every reachable state of db.users no two user records have the  *)
(* same email, for every sequence and interleaving of signup requests.     *)
(* The code breaks this: two signups for one new email that both pass the  *)
(* find_one before either inserts both insert.                             *)
C15_UniqueEmails == UniqueEmails

(* C15, second half, which holds: a signup for a registered email is       *)
(* rejected with 'Email already registered' and leaves db.users unchanged. *)
C15_Rejected == [][RejectedUnchanged]_vars

C15_RejectedWitness ==
    \E r \in Requests :
        /\ signups[r].pc = "done"
        /\ signups[r].status = 400
        /\ signups[r].email \notin {"u1@example.org", "u2@example.org"}

\* len(s) > 0 for a str
NonEmpty(str) == \E k \in 1..Len(str) : str[k] # ""

\* get_ai_insights has answered after awaiting chat.send_message
Answered == ai.pc = "done" /\ "llm" \in DOMAIN ai

\* exactly 3 insights, one of each of the types tip, motivation and
\* suggestion, each with content and emoji that are not empty
ThreeInsights(body) ==
    /\ Len(body) = 3
    /\ \A type \in {"tip", "motivation", "suggestion"} :
          \E k \in 1..Len(body) : body[k].insight_type = Str(type)
    /\ \A k \in 1..Len(body) :
          NonEmpty(body[k].content) /\ NonEmpty(body[k].emoji)

(* C13: get_ai_insights succeeds and returns exactly 3 insights, one of    *)
(* each insight_type tip, motivation and suggestion, each with non-empty   *)
(* content and emoji, whatever chat.send_message does: it returns the JSON *)
(* asked for, other valid JSON, invalid JSON, or it raises.  The code      *)
(* breaks this: valid JSON that is an array of insights is returned as the *)
(* model wrote it.                                                         *)
C13_ThreeInsights == Answered => ai.status = 200 /\ ThreeInsights(ai.body)

\* C13 for the outcomes the handler has a fallback for, where it holds: the
\* call raises, the text is no JSON, or the list cannot be converted
C13_WithFallback ==
    Answered /\ (\/ ai.llm.raises
                 \/ ~JsonLoads(StripFences(ai.llm.text)).ok
                 \/ ConvertRaises(JsonLoads(StripFences(ai.llm.text)).value)
                 \/ StripFences(ai.llm.text) = <<Json(Asked)>>)
        => ai.status = 200 /\ ThreeInsights(ai.body)

C13_FallbackWitness ==
    /\ Answered
    /\ ai.llm.text = <<Json(JObject({"insights"}))>>
    /\ ai.habits_len > 0
    /\ ai.body = FallbackInsights(ai.habits_len)

====
